---- MODULE Spec2Model ----
(***************************************************************************)
(* The project-proposal review backend (Django REST framework): the        *)
(* Project table, the comment ledger, the outbound mail and the audit log, *)
(* and the request handlers of app/views.py.  Every handler is a sequence  *)
(* of database statements and one mail send; there is no transaction       *)
(* around a request, so each statement is one atomic step and requests     *)
(* interleave between statements.                                          *)
(***************************************************************************)
EXTENDS Integers, Sequences, FiniteSets, Bags, TLC

\* ------------------------------------------------------------------ bounds
MaxReqs == 3        \* requests received one after the other in one behaviour
MaxRacing == 2      \* requests received in a behaviour that overlaps them
MaxInFlight == 2    \* requests being handled at the same time (workers)
MaxProjects == 2    \* primary keys the Project table hands out
MaxDay == 2         \* calendar days 0..MaxDay
MaxAttachments == 2 \* primary keys the Attachment table hands out

\* ------------------------------------------------------------------ values
NEW_ == "NEW"    \* ProjectStatus.NEW (NEW is a reserved word)
ACCEPTED == "ACCEPTED"
REJECTED == "REJECTED"
IN_PROGRESS == "IN_PROGRESS"
COMPLETED == "COMPLETED"

\* models.py declares these three members
ProjectStatus == {NEW_, ACCEPTED, REJECTED}
\* the status column's choices in the revision views.py is written against
StatusChoices == ProjectStatus \cup {IN_PROGRESS, COMPLETED}

None == "None"          \* a null foreign key / no value
Absent == "<absent>"    \* a key the request body does not carry

Reviewers == {"alice", "bob"}      \* staff users (request.user)
Emails == {"a@x.org"}              \* submitted contact addresses
Texts == {"looks good"}            \* reviewer-supplied comment_text
Days == 0..MaxDay
Workers == 1..MaxInFlight
Pks == 1..MaxProjects
Transitions == {"accept", "reject", "start", "completed"}

VARIABLES
    projects,       \* Project table: pk -> row
    comments,       \* ProjectComment table: bag of rows
    mails,          \* mail handed to the SMTP relay: bag of messages
    logs,           \* ApplicationLog table: bag of rows
    req,            \* per worker: the request it handles, or handled last
    served,         \* requests received so far
    load,           \* the behaviour's workload: requests in all, and at a time
    today,          \* timezone.now().date()
    nextProjectId,  \* the Project table's next primary key
    attachments,    \* Attachment table: id -> row
    nextAttachmentId \* the Attachment table's next primary key

vars == <<projects, comments, mails, logs, req, served, load, today, nextProjectId,
          attachments, nextAttachmentId>>
db == <<projects, comments, mails, logs, nextProjectId>>
files == <<attachments, nextAttachmentId>>

\* ------------------------------------------------------------------ rows
NoRow ==
    [status |-> None, accepted_by |-> None, started_by |-> None,
     completed_by |-> None, contact_email |-> None, deadline |-> 0]

NoData == [deadline |-> 0, status |-> Absent, contact_email |-> None]
NoPatch == [status |-> Absent]
NoneMade == [saves |-> 0, comments |-> 0, mails |-> 0, logs |-> 0]

\* a request: op and inputs (pk, user, text, data, patch); the handler's
\* position pc and its local project object obj; what the call has written
\* so far (made); the response (code, status, text, and the body of a read)
IdleReq ==
    [op |-> "idle", pc |-> "idle", pk |-> 0, user |-> None, text |-> Absent,
     data |-> NoData, patch |-> NoPatch, obj |-> NoRow, made |-> NoneMade,
     code |-> 0, status |-> None, body |-> {}]

\* ProjectCreateSerializer: the fields a create request may carry
CreateInputs ==
    [deadline : Days, status : {Absent} \cup ProjectStatus, contact_email : Emails]

\* a well-formed submission that leaves status to its default
PlainInputs ==
    [deadline : {MaxDay}, status : {Absent}, contact_email : {"a@x.org"}]

\* ProjectSerializer: the writable fields an update may carry
PatchInputs == [status : {Absent, COMPLETED}]

TextInputs == {Absent} \cup Texts

\* the same, and a comment_text that is there and empty
BodyTexts == TextInputs \cup {""}

\* status = ChoiceField(choices=ProjectStatus.choices, default=ProjectStatus.NEW)
ValidatedStatus(data) ==
    IF data.status = Absent THEN NEW_ ELSE data.status

\* a deadline check that also turns away the current date
validate_deadline_after_today(value) == ~(value <= today)

\* validate_deadline: raises when the value is before the current date
validate_deadline(value) == ~(value < today)

\* serializer.save() of ProjectCreateSerializer: the row that is inserted
NewProject(data) ==
    [status |-> ValidatedStatus(data), accepted_by |-> None, started_by |-> None,
     completed_by |-> None, contact_email |-> data.contact_email,
     deadline |-> data.deadline]

\* ------------------------------------------------------------------ requests
Free(w) == req[w].pc \in {"idle", "done"}

\* a request is received by the first free worker
Arrives(w) ==
    /\ served < load.reqs
    /\ Cardinality({v \in Workers : ~Free(v)}) < load.inflight
    /\ Free(w)
    /\ \A v \in Workers : v < w => ~Free(v)

\* the response is returned: the handler's locals are gone, the record keeps
\* the request line, what the call wrote and the response
Respond(w, code) ==
    [req EXCEPT ![w] = [IdleReq EXCEPT !.op = req[w].op, !.pc = "done",
                           !.pk = req[w].pk, !.data = req[w].data,
                           !.made = req[w].made, !.code = code]]

\* a transition's 200 response: {'detail', 'status': project.status, 'comment_text'}
RespondOk(w, made, text) ==
    [req EXCEPT ![w] = [IdleReq EXCEPT !.op = req[w].op, !.pc = "done",
                           !.pk = req[w].pk, !.user = req[w].user,
                           !.made = made, !.code = 200,
                           !.status = req[w].obj.status, !.text = text]]

\* a request refused on arrival (validation, guard, get_object_or_404)
Refuse(w, op, pk, code) ==
    [req EXCEPT ![w] = [IdleReq EXCEPT !.op = op, !.pc = "done", !.pk = pk,
                           !.code = code]]

Exists(pk) == pk \in DOMAIN projects

\* one more of what the call has written
Made(w, what) == [req[w].made EXCEPT ![what] = @ + 1]

\* the lifecycle graph as the specification draws it
LegalFrom(op) ==
    CASE op = "accept" -> NEW_
      [] op = "reject" -> NEW_
      [] op = "start" -> ACCEPTED
      [] op = "completed" -> IN_PROGRESS

Target(op) ==
    CASE op = "accept" -> ACCEPTED
      [] op = "reject" -> REJECTED
      [] op = "start" -> IN_PROGRESS
      [] op = "completed" -> COMPLETED

\* ------------------------------------------------------------------ create
\* POST /projects (AllowAny): is_valid(), then perform_create's serializer.save()
create(w, data) ==
    /\ Arrives(w)
    /\ nextProjectId <= MaxProjects
    /\ served' = served + 1
    /\ UNCHANGED load
    /\ IF validate_deadline(data.deadline)
       THEN /\ projects' = (nextProjectId :> NewProject(data)) @@ projects
            /\ nextProjectId' = nextProjectId + 1
            /\ req' = [req EXCEPT ![w] = [IdleReq EXCEPT !.op = "create",
                          !.pc = "create_log", !.pk = nextProjectId,
                          !.data = data, !.obj = NewProject(data),
                          !.made = [NoneMade EXCEPT !.saves = 1]]]
       ELSE /\ req' = [req EXCEPT ![w] = [IdleReq EXCEPT !.op = "create",
                          !.pc = "done", !.code = 400, !.data = data]]
            /\ UNCHANGED <<projects, nextProjectId>>
    /\ UNCHANGED <<comments, mails, logs, today>>
    /\ UNCHANGED files

\* perform_create: ApplicationLog.objects.create(...)
create_log(w) ==
    /\ req[w].pc = "create_log"
    /\ logs' = logs (+) SetToBag({[logger_name |-> "Create project",
                                   interacted_by |-> "sender",
                                   project |-> req[w].pk]})
    /\ req' = [req EXCEPT ![w].pc = "create_mail", ![w].made = Made(w, "logs")]
    /\ UNCHANGED <<projects, comments, mails, served, load, today, nextProjectId>>
    /\ UNCHANGED files

\* a confirmation addressed to the sending account instead of the submitter
create_mail_to_host_user(w) ==
    /\ req[w].pc = "create_mail"
    /\ mails' = mails (+) SetToBag({[subject |-> "Thank you for your project proposal",
                                     message |-> "We received your proposal",
                                     to |-> "EMAIL_HOST_USER",
                                     project |-> req[w].pk]})
    /\ req' = [Respond(w, 201) EXCEPT ![w].made = Made(w, "mails")]
    /\ UNCHANGED <<projects, comments, logs, served, load, today, nextProjectId>>
    /\ UNCHANGED files

\* perform_create: send_mail(..., fail_silently=False) delivers
create_mail_ok(w) ==
    /\ req[w].pc = "create_mail"
    /\ mails' = mails (+) SetToBag({[subject |-> "Thank you for your project proposal",
                                     message |-> "We received your proposal",
                                     to |-> req[w].obj.contact_email,
                                     project |-> req[w].pk]})
    /\ req' = [Respond(w, 201) EXCEPT ![w].made = Made(w, "mails")]
    /\ UNCHANGED <<projects, comments, logs, served, load, today, nextProjectId>>
    /\ UNCHANGED files

\* perform_create: send_mail raises, the request ends in a server error
create_mail_fail(w) ==
    /\ req[w].pc = "create_mail"
    /\ req' = Respond(w, 500)
    /\ UNCHANGED <<db, served, load, today>>
    /\ UNCHANGED files

\* ------------------------------------------------------------------ lifecycle
\* f"Project '{project.title}' was accepted." and its siblings
DefaultText(op) ==
    CASE op = "accept" -> "was accepted."
      [] op = "reject" -> "was rejected."
      [] op = "start" -> "has started."
      [] op = "completed" -> "has been completed."

\* the default also in place of an empty text (comment_text or <default>)
CommentText_or_default(op, text) ==
    IF text \in {Absent, ""} THEN DefaultText(op) ELSE text

\* request.data.get('comment_text', <default>)
CommentText(op, text) == IF text = Absent THEN DefaultText(op) ELSE text

\* email_subject=f"Project '{project.title}' Accepted" and its siblings
Subject(op) ==
    CASE op = "accept" -> "Accepted"
      [] op = "reject" -> "Rejected"
      [] op = "start" -> "Started"
      [] op = "completed" -> "Completed"

\* logger_name of the handler's ApplicationLog entry
LoggerName(op) ==
    CASE op = "accept" -> "Accept project"
      [] op = "reject" -> "Reject project"
      [] op = "start" -> "Start project"
      [] op = "completed" -> "Complete project"

\* project.save(update_fields=[...])
update_fields(op) ==
    CASE op = "accept" -> {"status", "accepted_by"}
      [] op = "reject" -> {"status"}
      [] op = "start" -> {"status", "started_by"}
      [] op = "completed" -> {"status", "completed_by"}

\* the audit-log entry written ahead of the notification
Steps_log_before_mail == <<"save", "comment", "log", "mail">>

\* the statements of a transition handler after its guard, in program order:
\* project.save, ProjectComment.objects.create, send_mail,
\* ApplicationLog.objects.create; the Response follows the last
Steps == <<"save", "comment", "mail", "log">>

StepIndex(step) == CHOOSE i \in 1..Len(Steps) : Steps[i] = step

\* the handler holds the loaded project, mutated in memory, and goes on to
\* its first statement
Begin(w, op, pk, user, text, obj) ==
    [req EXCEPT ![w] = [IdleReq EXCEPT !.op = op, !.pc = Steps[1], !.pk = pk,
                           !.user = user, !.text = text, !.obj = obj]]

\* statement `step` is done: on to the next, or to the Response
Advance(w, step, made) ==
    IF StepIndex(step) = Len(Steps)
    THEN RespondOk(w, made, CommentText(req[w].op, req[w].text))
    ELSE [req EXCEPT ![w].pc = Steps[StepIndex(step) + 1], ![w].made = made]

\* accept without its status guard
accept_project_unguarded(w, pk, user, text) ==
    /\ Arrives(w)
    /\ served' = served + 1
    /\ UNCHANGED load
    /\ req' = IF ~Exists(pk) THEN Refuse(w, "accept", pk, 404)
              ELSE Begin(w, "accept", pk, user, text,
                         [projects[pk] EXCEPT !.status = ACCEPTED, !.accepted_by = user])
    /\ UNCHANGED <<db, today>>
    /\ UNCHANGED files

\* POST /projects/{pk}/accept: get_object_or_404, the guard, the assignments
accept_project(w, pk, user, text) ==
    /\ Arrives(w)
    /\ served' = served + 1
    /\ UNCHANGED load
    /\ req' = IF ~Exists(pk) THEN Refuse(w, "accept", pk, 404)
              ELSE IF projects[pk].status # NEW_ THEN Refuse(w, "accept", pk, 400)
              ELSE Begin(w, "accept", pk, user, text,
                         [projects[pk] EXCEPT !.status = ACCEPTED, !.accepted_by = user])
    /\ UNCHANGED <<db, today>>
    /\ UNCHANGED files

\* POST /projects/{pk}/reject
reject_project(w, pk, user, text) ==
    /\ Arrives(w)
    /\ served' = served + 1
    /\ UNCHANGED load
    /\ req' = IF ~Exists(pk) THEN Refuse(w, "reject", pk, 404)
              ELSE IF projects[pk].status # NEW_ THEN Refuse(w, "reject", pk, 400)
              ELSE Begin(w, "reject", pk, user, text,
                         [projects[pk] EXCEPT !.status = REJECTED])
    /\ UNCHANGED <<db, today>>
    /\ UNCHANGED files

\* POST /projects/{pk}/start
start_project(w, pk, user, text) ==
    /\ Arrives(w)
    /\ served' = served + 1
    /\ UNCHANGED load
    /\ req' = IF ~Exists(pk) THEN Refuse(w, "start", pk, 404)
              ELSE IF projects[pk].status # ACCEPTED THEN Refuse(w, "start", pk, 400)
              ELSE Begin(w, "start", pk, user, text,
                         [projects[pk] EXCEPT !.status = IN_PROGRESS, !.started_by = user])
    /\ UNCHANGED <<db, today>>
    /\ UNCHANGED files

\* completed guarded by start's status
mark_completed_from_accepted(w, pk, user, text) ==
    /\ Arrives(w)
    /\ served' = served + 1
    /\ UNCHANGED load
    /\ req' = IF ~Exists(pk) THEN Refuse(w, "completed", pk, 404)
              ELSE IF projects[pk].status # ACCEPTED
                   THEN Refuse(w, "completed", pk, 400)
              ELSE Begin(w, "completed", pk, user, text,
                         [projects[pk] EXCEPT !.status = COMPLETED, !.completed_by = user])
    /\ UNCHANGED <<db, today>>
    /\ UNCHANGED files

\* POST /projects/{pk}/completed
mark_completed(w, pk, user, text) ==
    /\ Arrives(w)
    /\ served' = served + 1
    /\ UNCHANGED load
    /\ req' = IF ~Exists(pk) THEN Refuse(w, "completed", pk, 404)
              ELSE IF projects[pk].status # IN_PROGRESS
                   THEN Refuse(w, "completed", pk, 400)
              ELSE Begin(w, "completed", pk, user, text,
                         [projects[pk] EXCEPT !.status = COMPLETED, !.completed_by = user])
    /\ UNCHANGED <<db, today>>
    /\ UNCHANGED files

\* the row after UPDATE ... SET <update_fields> WHERE id = pk
Written(row, obj, fields) ==
    [f \in DOMAIN row |-> IF f \in fields THEN obj[f] ELSE row[f]]

\* a save that writes only a row still in the status the guard read
save_if_unchanged(w) ==
    /\ req[w].pc = "save"
    /\ IF Exists(req[w].pk) /\ projects[req[w].pk].status = LegalFrom(req[w].op)
       THEN /\ projects' = [projects EXCEPT ![req[w].pk] =
                               Written(@, req[w].obj, update_fields(req[w].op))]
            /\ req' = Advance(w, "save", Made(w, "saves"))
       ELSE /\ req' = Respond(w, 500)
            /\ UNCHANGED projects
    /\ UNCHANGED <<comments, mails, logs, served, load, today, nextProjectId>>
    /\ UNCHANGED files

\* project.save(update_fields=[...]): a row deleted meanwhile raises DatabaseError
save(w) ==
    /\ req[w].pc = "save"
    /\ IF Exists(req[w].pk)
       THEN /\ projects' = [projects EXCEPT ![req[w].pk] =
                               Written(@, req[w].obj, update_fields(req[w].op))]
            /\ req' = Advance(w, "save", Made(w, "saves"))
       ELSE /\ req' = Respond(w, 500)
            /\ UNCHANGED projects
    /\ UNCHANGED <<comments, mails, logs, served, load, today, nextProjectId>>
    /\ UNCHANGED files

\* create_comment_and_notify: ProjectComment.objects.create(...); the foreign
\* key to a project deleted meanwhile raises IntegrityError
create_comment(w) ==
    /\ req[w].pc = "comment"
    /\ IF Exists(req[w].pk)
       THEN /\ comments' = comments (+) SetToBag(
                   {[project |-> req[w].pk,
                     comment_text |-> CommentText(req[w].op, req[w].text),
                     author_name |-> req[w].user]})
            /\ req' = Advance(w, "comment", Made(w, "comments"))
       ELSE /\ req' = Respond(w, 500)
            /\ UNCHANGED comments
    /\ UNCHANGED <<projects, mails, logs, served, load, today, nextProjectId>>
    /\ UNCHANGED files

\* create_comment_and_notify: send_mail(..., fail_silently=False) delivers
send_mail_ok(w) ==
    /\ req[w].pc = "mail"
    /\ mails' = mails (+) SetToBag({[subject |-> Subject(req[w].op),
                                     message |-> CommentText(req[w].op, req[w].text),
                                     to |-> req[w].obj.contact_email,
                                     project |-> req[w].pk]})
    /\ req' = Advance(w, "mail", Made(w, "mails"))
    /\ UNCHANGED <<projects, comments, logs, served, load, today, nextProjectId>>
    /\ UNCHANGED files

\* send_mail(..., fail_silently=True): the failure is swallowed
send_mail_fail_silently(w) ==
    /\ req[w].pc = "mail"
    /\ req' = Advance(w, "mail", req[w].made)
    /\ UNCHANGED <<db, served, load, today>>
    /\ UNCHANGED files

\* send_mail raises: the exception leaves the handler, nothing is undone
send_mail_fail(w) ==
    /\ req[w].pc = "mail"
    /\ req' = Respond(w, 500)
    /\ UNCHANGED <<db, served, load, today>>
    /\ UNCHANGED files

\* a handler that answers without its audit-log entry
write_log_skipped(w) ==
    /\ req[w].pc = "log"
    /\ req' = Advance(w, "log", req[w].made)
    /\ UNCHANGED <<db, served, load, today>>
    /\ UNCHANGED files

\* ApplicationLog.objects.create(...) of a transition handler
write_log(w) ==
    /\ req[w].pc = "log"
    /\ logs' = logs (+) SetToBag({[logger_name |-> LoggerName(req[w].op),
                                   interacted_by |-> req[w].user,
                                   project |-> req[w].pk]})
    /\ req' = Advance(w, "log", Made(w, "logs"))
    /\ UNCHANGED <<projects, comments, mails, served, load, today, nextProjectId>>
    /\ UNCHANGED files

\* ------------------------------------------------------------------ generic CRUD
\* the serializer's validated data applied to the loaded instance
Patched(row, patch) ==
    [row EXCEPT !.status = IF patch.status = Absent THEN @ ELSE patch.status]

\* PUT/PATCH /projects/{pk} (ModelViewSet.update): get_object, is_valid
update(w, pk, patch) ==
    /\ Arrives(w)
    /\ served' = served + 1
    /\ UNCHANGED load
    /\ req' = IF ~Exists(pk) THEN Refuse(w, "update", pk, 404)
              ELSE [req EXCEPT ![w] = [IdleReq EXCEPT !.op = "update",
                       !.pc = "update_save", !.pk = pk, !.patch = patch,
                       !.obj = Patched(projects[pk], patch)]]
    /\ UNCHANGED <<db, today>>
    /\ UNCHANGED files

\* perform_update: serializer.save() -> instance.save(): every column is
\* written; when no row is left to update the row is inserted again
update_save(w) ==
    /\ req[w].pc = "update_save"
    /\ projects' = (req[w].pk :> req[w].obj) @@ projects
    /\ req' = [Respond(w, 200) EXCEPT ![w].made = Made(w, "saves")]
    /\ UNCHANGED <<comments, mails, logs, served, load, today, nextProjectId>>
    /\ UNCHANGED files

\* the comments table without the rows of project pk
WithoutProject(bag, pk) ==
    [c \in {x \in BagToSet(bag) : x.project # pk} |-> bag[c]]

\* DELETE /projects/{pk} (ModelViewSet.destroy): comments and attachments go
\* with the project (on_delete=CASCADE)
destroy(w, pk) ==
    /\ Arrives(w)
    /\ served' = served + 1
    /\ UNCHANGED load
    /\ IF Exists(pk)
       THEN /\ projects' = [k \in DOMAIN projects \ {pk} |-> projects[k]]
            /\ comments' = WithoutProject(comments, pk)
            /\ attachments' = [a \in {x \in DOMAIN attachments :
                                         attachments[x].project # pk}
                                  |-> attachments[a]]
            /\ req' = Refuse(w, "destroy", pk, 204)
       ELSE /\ req' = Refuse(w, "destroy", pk, 404)
            /\ UNCHANGED <<projects, comments, attachments>>
    /\ UNCHANGED <<mails, logs, today, nextProjectId, nextAttachmentId>>

\* ------------------------------------------------------------------ attachments
\* max_file_size = 5 * 1024 * 1024  # 5 MB
max_file_size == 5 * 1024 * 1024

allowed_file_types ==
    {"image/jpeg", "image/png", "application/pdf", "application/msword",
     "application/vnd.openxmlformats-officedocument.wordprocessingml.document",
     "text/plain"}

\* uploaded files: value.size in bytes (1 KiB, 5 MiB, 5 MiB + 1, 6 MiB) and
\* the declared content type (None: the upload declares none)
FileSizes == {1024, max_file_size, max_file_size + 1, 6 * 1024 * 1024}
ContentTypes == {None, "image/png", "application/zip"}
Uploads == [size : FileSizes, content_type : ContentTypes]
AttachmentIds == 1..MaxAttachments

\* a size check that also turns away a file of exactly the ceiling
validate_file_below_ceiling(value) ==
    IF value.size >= max_file_size THEN "size"
    ELSE IF value.content_type = None \/ value.content_type \notin allowed_file_types
         THEN "type"
    ELSE "ok"

\* AttachmentSerializer.validate_file: which ValidationError is raised, if any
validate_file(value) ==
    IF value.size > max_file_size THEN "size"
    ELSE IF value.content_type = None \/ value.content_type \notin allowed_file_types
         THEN "type"
    ELSE "ok"

\* POST /attachments (IsAdminUser): is_valid() checks the project key and the
\* file; perform_create's serializer.save() hands the file to the media host
\* and inserts the row
attachment_create(w, user, pk, file) ==
    /\ Arrives(w)
    /\ nextAttachmentId <= MaxAttachments
    /\ served' = served + 1
    /\ IF Exists(pk) /\ validate_file(file) = "ok"
       THEN /\ attachments' = (nextAttachmentId :>
                                  [project |-> pk, file |-> file, hosted |-> TRUE])
                              @@ attachments
            /\ nextAttachmentId' = nextAttachmentId + 1
            /\ req' = [req EXCEPT ![w] = [IdleReq EXCEPT !.op = "upload",
                          !.pc = "done", !.pk = pk, !.user = user, !.data = file,
                          !.code = 201, !.body = {nextAttachmentId},
                          !.made = [NoneMade EXCEPT !.saves = 1]]]
       ELSE /\ req' = [req EXCEPT ![w] = [IdleReq EXCEPT !.op = "upload",
                          !.pc = "done", !.pk = pk, !.user = user, !.data = file,
                          !.code = 400,
                          !.text = IF validate_file(file) = "ok" THEN "project"
                                   ELSE validate_file(file)]]
            /\ UNCHANGED files
    /\ UNCHANGED <<db, load, today>>

\* the media host no longer holds the file of attachment a (storage is the
\* external host named by RawMediaCloudinaryStorage; the row knows nothing of it)
file_lost(a) ==
    /\ a \in DOMAIN attachments
    /\ attachments[a].hosted
    /\ attachments' = [attachments EXCEPT ![a].hosted = FALSE]
    /\ UNCHANGED <<db, req, served, load, today, nextAttachmentId>>

\* GET /attachments/{attachment_id}/download/ (IsAdminUser): get_object_or_404,
\* attachment.file.url (computed from the stored name), the audit-log entry,
\* redirect(original_url)
download(w, user, attachment_id) ==
    /\ Arrives(w)
    /\ served' = served + 1
    /\ IF attachment_id \in DOMAIN attachments
       THEN /\ logs' = logs (+) SetToBag({[logger_name |-> "Attachment download",
                                            interacted_by |-> user,
                                            attachment |-> attachment_id]})
            /\ req' = [req EXCEPT ![w] = [IdleReq EXCEPT !.op = "download",
                          !.pc = "done", !.pk = attachment_id, !.user = user,
                          !.code = 302, !.body = {attachment_id},
                          !.made = [NoneMade EXCEPT !.logs = 1]]]
       ELSE /\ req' = [req EXCEPT ![w] = [IdleReq EXCEPT !.op = "download",
                          !.pc = "done", !.pk = attachment_id, !.user = user,
                          !.code = 404]]
            /\ UNCHANGED logs
    /\ UNCHANGED <<projects, comments, mails, nextProjectId, files, load, today>>

\* ------------------------------------------------------------------ comments
\* ProjectCommentSerializer.Meta.fields that a body can set ('id' and
\* 'created_at' are read-only)
CommentFields == {"comment_text", "author_name"}

\* bodies of POST /comments: the project key, the text and the author
CommentBodies ==
    [project : Pks, comment_text : {"looks good"}, author_name : Reviewers]

\* serializer.validated_data: the declared fields of the body, nothing else
validated_data(body) ==
    [f \in DOMAIN body \cap CommentFields |-> body[f]]

\* the rows a /comments/{id} request may name, there or not
CommentRows ==
    [project : Pks, author_name : Reviewers,
     comment_text : Texts \cup {"was accepted.", "was rejected."}]

\* POST /comments (IsAdminUser): perform_create reads validated_data['project'],
\* a key the serializer does not declare (KeyError); with the key it would go
\* on to create_comment_and_notify and the audit-log entry
comment_create(w, user, body) ==
    /\ Arrives(w)
    /\ served' = served + 1
    /\ LET data == validated_data(body)
           answer(code, made) ==
               [req EXCEPT ![w] = [IdleReq EXCEPT !.op = "comment", !.pc = "done",
                                      !.pk = body.project, !.user = user,
                                      !.text = body.comment_text,
                                      !.code = code, !.made = made]]
       IN IF "project" \notin DOMAIN data
          THEN /\ req' = answer(500, NoneMade)
               /\ UNCHANGED <<comments, mails, logs>>
          ELSE /\ comments' = comments (+) SetToBag(
                      {[project |-> data["project"],
                        comment_text |-> data["comment_text"],
                        author_name |-> data["author_name"]]})
               /\ mails' = mails (+) SetToBag(
                      {[subject |-> "New Comment",
                        message |-> data["comment_text"],
                        to |-> projects[data["project"]].contact_email,
                        project |-> data["project"]]})
               /\ logs' = logs (+) SetToBag(
                      {[logger_name |-> "Create comment to project",
                        interacted_by |-> data["author_name"],
                        project |-> data["project"]]})
               /\ req' = answer(201, [NoneMade EXCEPT !.comments = 1,
                                         !.mails = 1, !.logs = 1])
    /\ UNCHANGED <<projects, nextProjectId, files, load, today>>

\* PUT/PATCH /comments/{id} (ModelViewSet.update): comment_text is writable
comment_update(w, user, c, text) ==
    /\ Arrives(w)
    /\ served' = served + 1
    /\ IF BagIn(c, comments)
       THEN /\ comments' = (comments (-) SetToBag({c}))
                              (+) SetToBag({[c EXCEPT !.comment_text = text]})
            /\ req' = [req EXCEPT ![w] = [IdleReq EXCEPT !.op = "comment_update",
                          !.pc = "done", !.pk = c.project, !.user = user,
                          !.text = text, !.code = 200]]
       ELSE /\ req' = [req EXCEPT ![w] = [IdleReq EXCEPT !.op = "comment_update",
                          !.pc = "done", !.user = user, !.code = 404]]
            /\ UNCHANGED comments
    /\ UNCHANGED <<projects, mails, logs, nextProjectId, files, load, today>>

\* DELETE /comments/{id} (ModelViewSet.destroy)
comment_destroy(w, user, c) ==
    /\ Arrives(w)
    /\ served' = served + 1
    /\ IF BagIn(c, comments)
       THEN /\ comments' = comments (-) SetToBag({c})
            /\ req' = [req EXCEPT ![w] = [IdleReq EXCEPT !.op = "comment_destroy",
                          !.pc = "done", !.pk = c.project, !.user = user,
                          !.code = 204]]
       ELSE /\ req' = [req EXCEPT ![w] = [IdleReq EXCEPT !.op = "comment_destroy",
                          !.pc = "done", !.user = user, !.code = 404]]
            /\ UNCHANGED comments
    /\ UNCHANGED <<projects, mails, logs, nextProjectId, files, load, today>>

\* ------------------------------------------------------------------ permissions and routing
\* callers that are not staff: an authenticated user and AnonymousUser
Outsiders == {"carol", "AnonymousUser"}
Users == Reviewers \cup Outsiders

\* the views' actions that go through a permission check, by name
Actions ==
    {"create", "list", "retrieve", "update", "destroy", "accept", "reject",
     "start", "completed", "my-projects", "upload", "download", "comment",
     "comment_update", "comment_destroy", "logs", "categories"}

\* get_permissions of ProjectViewSet; permission_classes of the other views
permission_classes(action) ==
    IF action \in {"create", "categories"} THEN "AllowAny" ELSE "IsAdminUser"

\* IsAdminUser: request.user and request.user.is_staff
is_staff(user) == user \in Reviewers

\* a check that lets every authenticated user through (IsAuthenticated)
has_permission_authenticated(action, user) ==
    permission_classes(action) = "AllowAny" \/ user # "AnonymousUser"

has_permission(action, user) ==
    permission_classes(action) = "AllowAny" \/ is_staff(user)

\* the request is turned away before its handler runs
permission_denied(w, action, pk, user) ==
    /\ Arrives(w)
    /\ ~has_permission(action, user)
    /\ served' = served + 1
    /\ req' = [req EXCEPT ![w] = [IdleReq EXCEPT !.op = action, !.pc = "done",
                                     !.pk = pk, !.user = user, !.code = 403]]
    /\ UNCHANGED <<db, files, load, today>>

\* POST /projects/{pk}/accept behind its permission check
accept_request(w, pk, user, text) ==
    /\ has_permission("accept", user)
    /\ accept_project(w, pk, user, text)

\* the answer to a read: 200 and the rows
Read(w, action, user, rows) ==
    [req EXCEPT ![w] = [IdleReq EXCEPT !.op = action, !.pc = "done",
                           !.user = user, !.code = 200, !.body = rows]]

\* GET /projects (ModelViewSet.list)
list_projects(w, user) ==
    /\ Arrives(w)
    /\ has_permission("list", user)
    /\ served' = served + 1
    /\ req' = Read(w, "list", user, DOMAIN projects)
    /\ UNCHANGED <<db, files, load, today>>

\* GET /logs/ (ApplicationLogView.get)
logs_view(w, user) ==
    /\ Arrives(w)
    /\ has_permission("logs", user)
    /\ served' = served + 1
    /\ req' = Read(w, "logs", user, BagToSet(logs))
    /\ UNCHANGED <<db, files, load, today>>

Categories == {"web"}

\* GET /categories/ (CategoryListView.get, AllowAny)
category_list(w, user) ==
    /\ Arrives(w)
    /\ has_permission("categories", user)
    /\ served' = served + 1
    /\ req' = Read(w, "categories", user, Categories)
    /\ UNCHANGED <<db, files, load, today>>

\* router.register(...): the viewsets the URL configuration serves
registry ==
    [projects |-> "ProjectViewSet", attachments |-> "AttachmentViewSet",
     comments |-> "ProjectCommentViewSet"]

\* the @action(detail=False) routes of a viewset, by url_path
list_routes(viewset) ==
    IF viewset = "UserProjectViewSet" THEN {"my-projects"} ELSE {}

\* the view a path /<prefix>/<segment>/ is dispatched to: a detail=False
\* action of the registered viewset, else its detail route with pk = segment
resolve(prefix, segment) ==
    IF segment \in list_routes(registry[prefix])
    THEN [viewset |-> registry[prefix], action |-> segment, pk |-> None]
    ELSE [viewset |-> registry[prefix], action |-> "retrieve", pk |-> segment]

\* Project.objects.filter(Q(accepted_by=user) | Q(started_by=user) |
\* Q(completed_by=user)).distinct()
my_projects(user) ==
    {pk \in DOMAIN projects :
        \/ projects[pk].accepted_by = user
        \/ projects[pk].started_by = user
        \/ projects[pk].completed_by = user}

\* GET /projects/my-projects/: dispatched by the URL configuration; on the
\* detail route of ProjectViewSet the pk 'my-projects' matches no row
get_my_projects(w, user) ==
    /\ Arrives(w)
    /\ has_permission(resolve("projects", "my-projects").action, user)
    /\ served' = served + 1
    /\ req' = IF resolve("projects", "my-projects").action = "my-projects"
              THEN Read(w, "my-projects", user, my_projects(user))
              ELSE [req EXCEPT ![w] = [IdleReq EXCEPT !.op = "my-projects",
                                          !.pc = "done", !.user = user,
                                          !.code = 404]]
    /\ UNCHANGED <<db, files, load, today>>

\* ------------------------------------------------------------------ time
\* the calendar date moves on
Tick ==
    /\ today < MaxDay
    /\ today' = today + 1
    /\ UNCHANGED <<db, req, served, load>>
    /\ UNCHANGED files

\* ------------------------------------------------------------------ specifications
\* the deployment before any request
InitEmpty ==
    /\ projects = <<>>
    /\ comments = EmptyBag
    /\ mails = EmptyBag
    /\ logs = EmptyBag
    /\ req = [w \in Workers |-> IdleReq]
    /\ served = 0
    /\ load = [reqs |-> MaxRacing, inflight |-> MaxInFlight]
    /\ today = 1
    /\ nextProjectId = 1
    /\ attachments = <<>>
    /\ nextAttachmentId = 1

\* the public submission endpoint alone, with every field a body may carry
NextCreate ==
    \/ \E w \in Workers, data \in CreateInputs : create(w, data)
    \/ \E w \in Workers : create_log(w)
    \/ \E w \in Workers : create_mail_ok(w)
    \/ \E w \in Workers : create_mail_fail(w)
    \/ Tick

SpecCreate == InitEmpty /\ [][NextCreate]_vars

\* the database after one submission was answered 201
Seeded ==
    /\ projects = (1 :> NewProject([deadline |-> MaxDay, status |-> Absent,
                                    contact_email |-> "a@x.org"]))
    /\ comments = EmptyBag
    /\ mails = SetToBag({[subject |-> "Thank you for your project proposal",
                          message |-> "We received your proposal",
                          to |-> "a@x.org", project |-> 1]})
    /\ logs = SetToBag({[logger_name |-> "Create project",
                         interacted_by |-> "sender", project |-> 1]})
    /\ req = [w \in Workers |-> IdleReq]
    /\ served = 0
    /\ today = 1
    /\ nextProjectId = 2
    /\ attachments = <<>>
    /\ nextAttachmentId = 1

\* overlapping requests
Init == Seeded /\ load = [reqs |-> MaxRacing, inflight |-> MaxInFlight]

\* requests handled one after the other
InitSerial == Seeded /\ load = [reqs |-> MaxReqs, inflight |-> 1]

\* the reviewers' requests against it, and further submissions
Next ==
    \/ \E w \in Workers, data \in PlainInputs : create(w, data)
    \/ \E w \in Workers : create_log(w)
    \/ \E w \in Workers : create_mail_ok(w)
    \/ \E w \in Workers : create_mail_fail(w)
    \/ \E w \in Workers, pk \in Pks, u \in Reviewers, t \in TextInputs :
          accept_project(w, pk, u, t)
    \/ \E w \in Workers, pk \in Pks, u \in Reviewers, t \in TextInputs :
          reject_project(w, pk, u, t)
    \/ \E w \in Workers, pk \in Pks, u \in Reviewers, t \in TextInputs :
          start_project(w, pk, u, t)
    \/ \E w \in Workers, pk \in Pks, u \in Reviewers, t \in TextInputs :
          mark_completed(w, pk, u, t)
    \/ \E w \in Workers : save(w)
    \/ \E w \in Workers : create_comment(w)
    \/ \E w \in Workers : send_mail_ok(w)
    \/ \E w \in Workers : send_mail_fail(w)
    \/ \E w \in Workers : write_log(w)
    \/ \E w \in Workers, pk \in Pks, patch \in PatchInputs : update(w, pk, patch)
    \/ \E w \in Workers : update_save(w)
    \/ \E w \in Workers, pk \in Pks : destroy(w, pk)

Spec == Init /\ [][Next]_vars

SpecSerial == InitSerial /\ [][Next]_vars

\* the reviewers' uploads and downloads, one request after the other
NextFiles ==
    \/ \E w \in Workers, u \in Reviewers, pk \in Pks, f \in Uploads :
          attachment_create(w, u, pk, f)
    \/ \E a \in AttachmentIds : file_lost(a)
    \/ \E w \in Workers, u \in Reviewers, a \in AttachmentIds : download(w, u, a)

SpecFiles == InitSerial /\ [][NextFiles]_vars

\* the reviewers' requests on /comments, beside the decisions that write
\* comments; one request after the other
NextComments ==
    \/ \E w \in Workers, pk \in Pks, u \in Reviewers, t \in TextInputs :
          accept_project(w, pk, u, t)
    \/ \E w \in Workers, pk \in Pks, u \in Reviewers, t \in TextInputs :
          reject_project(w, pk, u, t)
    \/ \E w \in Workers : save(w)
    \/ \E w \in Workers : create_comment(w)
    \/ \E w \in Workers : send_mail_ok(w)
    \/ \E w \in Workers : send_mail_fail(w)
    \/ \E w \in Workers : write_log(w)
    \/ \E w \in Workers, u \in Reviewers, body \in CommentBodies :
          comment_create(w, u, body)
    \/ \E w \in Workers, u \in Reviewers, c \in CommentRows :
          comment_update(w, u, c, "edited")
    \/ \E w \in Workers, u \in Reviewers, c \in CommentRows :
          comment_destroy(w, u, c)

SpecComments == InitSerial /\ [][NextComments]_vars

\* requests of every kind of caller, staff or not
NextPublic ==
    \/ \E w \in Workers, data \in PlainInputs : create(w, data)
    \/ \E w \in Workers : create_log(w)
    \/ \E w \in Workers : create_mail_ok(w)
    \/ \E w \in Workers : create_mail_fail(w)
    \/ \E w \in Workers, a \in Actions, pk \in Pks, u \in Users :
          permission_denied(w, a, pk, u)
    \/ \E w \in Workers, pk \in Pks, u \in Users :
          accept_request(w, pk, u, Absent)
    \/ \E w \in Workers : save(w)
    \/ \E w \in Workers : create_comment(w)
    \/ \E w \in Workers : send_mail_ok(w)
    \/ \E w \in Workers : send_mail_fail(w)
    \/ \E w \in Workers : write_log(w)
    \/ \E w \in Workers, u \in Users : list_projects(w, u)
    \/ \E w \in Workers, u \in Users : logs_view(w, u)
    \/ \E w \in Workers, u \in Users : category_list(w, u)
    \/ \E w \in Workers, u \in Users : get_my_projects(w, u)

SpecPublic == Init /\ [][NextPublic]_vars

\* the four transitions with every kind of comment_text, one request after
\* the other
NextTexts ==
    \/ \E w \in Workers, pk \in Pks, u \in Reviewers, t \in BodyTexts :
          accept_project(w, pk, u, t)
    \/ \E w \in Workers, pk \in Pks, u \in Reviewers, t \in BodyTexts :
          reject_project(w, pk, u, t)
    \/ \E w \in Workers, pk \in Pks, u \in Reviewers, t \in BodyTexts :
          start_project(w, pk, u, t)
    \/ \E w \in Workers, pk \in Pks, u \in Reviewers, t \in BodyTexts :
          mark_completed(w, pk, u, t)
    \/ \E w \in Workers : save(w)
    \/ \E w \in Workers : create_comment(w)
    \/ \E w \in Workers : send_mail_ok(w)
    \/ \E w \in Workers : send_mail_fail(w)
    \/ \E w \in Workers : write_log(w)

SpecTexts == InitSerial /\ [][NextTexts]_vars

\* ------------------------------------------------------------------ reading a step
\* this step is the arrival of a request, at worker w
Received(w) == Arrives(w) /\ served' = served + 1

\* this step is worker w's, inside the handler of a lifecycle transition
InTransition(w) == ~Free(w) /\ req[w].op \in Transitions /\ req'[w] # req[w]

\* this step returns the response of the request worker w was handling
Returns(w) == ~Free(w) /\ req'[w].pc = "done"

Refused(w) == req[w].pc = "done" /\ req[w].code = 400

\* ------------------------------------------------------------------ C1
\* C1 (as claimed): whatever fields the body of an accepted POST /projects
\* carries, the project it creates has status NEW.
C1_CreatedProjectIsNew ==
    \A w \in Workers :
        (req[w].op = "create" /\ req[w].pc # "idle" /\ req[w].code # 400
         /\ Exists(req[w].pk))
            => projects[req[w].pk].status = NEW_

\* ------------------------------------------------------------------ C2
\* C2: a transition invoked on a project whose status is not the one it is
\* legal from (accept, reject: NEW; start: ACCEPTED; completed: IN_PROGRESS)
\* is answered 400 at once and changes neither the project table (status,
\* accepted_by, started_by, completed_by) nor the comments, the mail sent or
\* the audit log.
C2_IllegalTransitionHasNoEffect ==
    [][\A w \in Workers :
          (/\ Received(w)
           /\ req'[w].op \in Transitions
           /\ Exists(req'[w].pk)
           /\ projects[req'[w].pk].status # LegalFrom(req'[w].op))
              => /\ req'[w].pc = "done"
                 /\ req'[w].code = 400
                 /\ req'[w].made = NoneMade
                 /\ projects' = projects
                 /\ comments' = comments
                 /\ mails' = mails
                 /\ logs' = logs]_vars

\* an accept of an already ACCEPTED project was refused
C2_SecondAcceptRefused ==
    \E w \in Workers :
        /\ Refused(w)
        /\ req[w].op = "accept"
        /\ Exists(req[w].pk)
        /\ projects[req[w].pk].status = ACCEPTED
        /\ projects[req[w].pk].accepted_by \in Reviewers
        /\ BagCardinality(comments) = 1

\* ------------------------------------------------------------------ C3
\* C3: with requests handled one after the other, accept, start and completed
\* pass their guard exactly when the project is NEW, ACCEPTED and IN_PROGRESS
\* respectively; out of order they are answered 400 and the project table is
\* unchanged; a call that passed its guard has persisted its target status
\* when it returns (200, or 500 when the notification could not be sent).
C3_LifecycleInOrder ==
    [][\A w \in Workers :
          /\ (/\ Received(w)
              /\ req'[w].op \in {"accept", "start", "completed"}
              /\ Exists(req'[w].pk))
                 => IF projects[req'[w].pk].status = LegalFrom(req'[w].op)
                    THEN req'[w].pc # "done"
                    ELSE /\ req'[w].pc = "done"
                         /\ req'[w].code = 400
                         /\ projects' = projects
          /\ (Returns(w) /\ req[w].op \in {"accept", "start", "completed"})
                 => /\ req'[w].code \in {200, 500}
                    /\ req'[w].code = 200 => req'[w].status = Target(req[w].op)
                    /\ projects'[req[w].pk].status = Target(req[w].op)]_vars

\* accept, start and completed were each answered 200 and the project is
\* COMPLETED
C3_CompletedInOrder ==
    /\ Exists(1)
    /\ projects[1].status = COMPLETED
    /\ projects[1].accepted_by \in Reviewers
    /\ projects[1].started_by \in Reviewers
    /\ projects[1].completed_by \in Reviewers
    /\ req[1].op = "completed" /\ req[1].code = 200 /\ req[1].status = COMPLETED
    /\ \A name \in {"Accept project", "Start project", "Complete project"} :
          \E l \in BagToSet(logs) : l.logger_name = name /\ l.project = 1

\* ------------------------------------------------------------------ C4
\* the rows a step added to a table
Added(after, before) == after (-) before

\* C4: whatever a step of a transition handler adds to the comments or to
\* the audit log is a row of the transitioned project, the guard adds
\* nothing, and the call that is answered 200 has added exactly one comment
\* and exactly one audit-log entry.
C4_OneCommentOneLogEntry ==
    [][\A w \in Workers :
          /\ (Received(w) /\ req'[w].op \in Transitions)
                => /\ comments' = comments
                   /\ logs' = logs
                   /\ req'[w].made = NoneMade
          /\ InTransition(w)
                => /\ comments \sqsubseteq comments'
                   /\ logs \sqsubseteq logs'
                   /\ BagCardinality(Added(comments', comments))
                         = req'[w].made.comments - req[w].made.comments
                   /\ BagCardinality(Added(logs', logs))
                         = req'[w].made.logs - req[w].made.logs
                   /\ \A c \in BagToSet(Added(comments', comments)) :
                         c.project = req[w].pk /\ c.author_name = req[w].user
                   /\ \A l \in BagToSet(Added(logs', logs)) :
                         /\ l.project = req[w].pk
                         /\ l.interacted_by = req[w].user
                         /\ l.logger_name = LoggerName(req[w].op)
                   /\ (req'[w].pc = "done" /\ req'[w].code = 200)
                         => /\ req'[w].made.comments = 1
                            /\ req'[w].made.logs = 1]_vars

\* a transition was answered 200; its comment and its audit-log entry exist
C4_TransitionAnswered ==
    \E w \in Workers :
        /\ req[w].pc = "done" /\ req[w].code = 200
        /\ req[w].op \in Transitions
        /\ req[w].made.comments = 1 /\ req[w].made.logs = 1
        /\ \E c \in BagToSet(comments) : c.project = req[w].pk
        /\ \E l \in BagToSet(logs) :
              l.project = req[w].pk /\ l.logger_name = LoggerName(req[w].op)

\* ------------------------------------------------------------------ C5
\* C5: a transition handler writes in the order guard, status mutation,
\* comment, notification, audit-log entry, response: the guard writes
\* nothing; the project row is written first; a comment is added only after
\* the save, a mail only after the comment, an audit-log entry only after
\* the mail; and 200 is returned only after all four.
C5_SideEffectOrder ==
    [][\A w \in Workers :
          /\ (Received(w) /\ req'[w].op \in Transitions)
                => /\ projects' = projects /\ comments' = comments
                   /\ mails' = mails /\ logs' = logs
          /\ InTransition(w)
                => /\ projects' # projects
                         => req[w].made = NoneMade /\ req'[w].made.saves = 1
                   /\ comments' # comments
                         => /\ req[w].made.saves = 1
                            /\ req[w].made.mails = 0 /\ req[w].made.logs = 0
                   /\ mails' # mails
                         => /\ req[w].made.saves = 1 /\ req[w].made.comments = 1
                            /\ req[w].made.logs = 0
                   /\ logs' # logs
                         => /\ req[w].made.saves = 1 /\ req[w].made.comments = 1
                            /\ req[w].made.mails = 1
                   /\ BagCardinality(mails') - BagCardinality(mails)
                         = req'[w].made.mails - req[w].made.mails
                   /\ BagCardinality(logs') - BagCardinality(logs)
                         = req'[w].made.logs - req[w].made.logs
                   /\ BagCardinality(comments') - BagCardinality(comments)
                         = req'[w].made.comments - req[w].made.comments
                   /\ (req'[w].pc = "done" /\ req'[w].code = 200)
                         => req'[w].made = [saves |-> 1, comments |-> 1,
                                            mails |-> 1, logs |-> 1]]_vars

\* the notification of a transition is out and its audit-log entry is not
\* yet written
C5_MailSentLogPending ==
    \E w \in Workers :
        /\ ~Free(w) /\ req[w].op \in Transitions
        /\ req[w].made = [saves |-> 1, comments |-> 1, mails |-> 1, logs |-> 0]
        /\ Exists(req[w].pk)
        /\ projects[req[w].pk].status = Target(req[w].op)

\* ------------------------------------------------------------------ C8
\* C8: when the send of a transition's notification fails, the request
\* returns 500 at that point; the project row it saved and the comment it
\* added stay as they are, and no audit-log entry is written.
C8_FailedSendNoRollback ==
    [][\A w \in Workers :
          (InTransition(w) /\ req[w].pc = "mail" /\ mails' = mails)
              => /\ req'[w].pc = "done"
                 /\ req'[w].code = 500
                 /\ req'[w].made = [saves |-> 1, comments |-> 1,
                                    mails |-> 0, logs |-> 0]
                 /\ projects' = projects
                 /\ comments' = comments
                 /\ logs' = logs]_vars

\* an accept was answered 500 and the project is ACCEPTED, with the comment
\* and without the audit-log entry
C8_AcceptedAfterError ==
    \E w \in Workers :
        /\ req[w].pc = "done" /\ req[w].code = 500 /\ req[w].op = "accept"
        /\ req[w].made.comments = 1 /\ req[w].made.mails = 0
        /\ Exists(req[w].pk)
        /\ projects[req[w].pk].status = ACCEPTED
        /\ \E c \in BagToSet(comments) : c.project = req[w].pk
        /\ ~\E l \in BagToSet(logs) : l.logger_name = "Accept project"

\* ------------------------------------------------------------------ C9
\* C9: the save of an accept that passed the guard is unconditional: it
\* leaves the project ACCEPTED with accepted_by the saving request's
\* reviewer, whatever was saved since the guard read the row; so of two
\* overlapping accepts the later save decides accepted_by.
C9_LastAcceptSaveWins ==
    [][\A w \in Workers :
          (/\ InTransition(w)
           /\ req[w].op = "accept"
           /\ req[w].made.saves = 0
           /\ Exists(req[w].pk))
              => /\ req'[w].made.saves = 1
                 /\ req'[w].pc # "done"
                 /\ projects'[req[w].pk].status = ACCEPTED
                 /\ projects'[req[w].pk].accepted_by = req[w].user]_vars

\* two accepts of the same project were both answered 200: two comments,
\* two notifications, two audit-log entries
C9_BothAcceptsAnswered ==
    /\ req[1].pc = "done" /\ req[1].code = 200 /\ req[1].op = "accept"
    /\ req[2].pc = "done" /\ req[2].code = 200 /\ req[2].op = "accept"
    /\ req[1].pk = req[2].pk
    /\ req[1].user # req[2].user
    /\ projects[req[1].pk].status = ACCEPTED
    /\ projects[req[1].pk].accepted_by = req[2].user
    /\ BagCardinality(comments) = 2
    /\ BagCardinality(mails) = 3
    /\ BagCardinality(logs) = 3

\* ------------------------------------------------------------------ C10
\* C10: a create whose deadline is before the current date is answered 400
\* and leaves the project table, the audit log and the mail as they were; a
\* create whose deadline is the current date or later inserts the project.
C10_PastDeadlineRejected ==
    [][\A w \in Workers :
          (Received(w) /\ req'[w].op = "create")
              => IF req'[w].data.deadline < today
                 THEN /\ req'[w].pc = "done"
                      /\ req'[w].code = 400
                      /\ req'[w].made = NoneMade
                      /\ projects' = projects
                      /\ nextProjectId' = nextProjectId
                      /\ logs' = logs
                      /\ mails' = mails
                 ELSE /\ req'[w].pc # "done"
                      /\ req'[w].pk \notin DOMAIN projects
                      /\ req'[w].pk \in DOMAIN projects'
                      /\ projects'[req'[w].pk].deadline = req'[w].data.deadline]_vars

\* a create with yesterday's deadline was refused, one with today's was stored
C10_YesterdayRefusedTodayStored ==
    /\ \E w \in Workers :
          /\ req[w].op = "create" /\ Refused(w)
          /\ req[w].data.deadline < today
    /\ \E pk \in DOMAIN projects : projects[pk].deadline = today
    /\ BagCardinality(logs) = 1

\* ------------------------------------------------------------------ C6
LifecycleEdges ==
    {<<NEW_, ACCEPTED>>, <<NEW_, REJECTED>>, <<ACCEPTED, IN_PROGRESS>>,
     <<IN_PROGRESS, COMPLETED>>}

C13_DownloadLoggedIffResolved ==
    [][\A w \in Workers :
          (Received(w) /\ req'[w].op = "download")
              => IF /\ req'[w].pk \in DOMAIN attachments
                    /\ attachments[req'[w].pk].hosted
                 THEN /\ req'[w].code = 302
                      /\ Added(logs', logs) =
                            SetToBag({[logger_name |-> "Attachment download",
                                       interacted_by |-> req'[w].user,
                                       attachment |-> req'[w].pk]})
                 ELSE /\ req'[w].code = 404
                      /\ logs' = logs]_vars

\* ------------------------------------------------------------------ C12
\* this step is worker w's, inside the handler of a create
InCreate(w) == ~Free(w) /\ req[w].op = "create" /\ req'[w] # req[w]

\* C12: no step of a create touches the comments; the only mail a create
\* sends is the confirmation to the contact address of its body and the only
\* audit-log entry it writes is "Create project" for its project; a create
\* answered 201 has sent exactly one such mail and written exactly one such
\* entry.
C12_CreateNotifiesAndLogsOnce ==
    [][\A w \in Workers :
          /\ (Received(w) /\ req'[w].op = "create")
                => /\ comments' = comments /\ mails' = mails /\ logs' = logs
                   /\ req'[w].made.mails = 0 /\ req'[w].made.logs = 0
          /\ InCreate(w)
                => /\ comments' = comments
                   /\ mails \sqsubseteq mails' /\ logs \sqsubseteq logs'
                   /\ BagCardinality(Added(mails', mails))
                         = req'[w].made.mails - req[w].made.mails
                   /\ BagCardinality(Added(logs', logs))
                         = req'[w].made.logs - req[w].made.logs
                   /\ \A m \in BagToSet(Added(mails', mails)) :
                         /\ m.to = req[w].data.contact_email
                         /\ m.project = req[w].pk
                         /\ m.subject = "Thank you for your project proposal"
                   /\ \A l \in BagToSet(Added(logs', logs)) :
                         l.logger_name = "Create project" /\ l.project = req[w].pk
                   /\ (req'[w].pc = "done" /\ req'[w].code = 201)
                         => /\ req'[w].made.mails = 1
                            /\ req'[w].made.logs = 1
                            /\ req'[w].made.comments = 0]_vars

\* a create was answered 201: its confirmation and its audit-log entry are
\* there and there is no comment
C12_CreateAnswered ==
    \E w \in Workers :
        /\ req[w].op = "create" /\ req[w].pc = "done" /\ req[w].code = 201
        /\ BagCardinality(mails) = 1 /\ BagCardinality(logs) = 1
        /\ \E m \in BagToSet(mails) :
              m.to = req[w].data.contact_email /\ m.project = req[w].pk
        /\ \E l \in BagToSet(logs) :
              l.logger_name = "Create project" /\ l.project = req[w].pk
        /\ comments = EmptyBag

\* ------------------------------------------------------------------ C14
\* C14 (as claimed): a reviewer's POST /comments for an existing project is
\* answered 201, adds exactly one comment, of that project, sends one mail
\* to the project's contact address, writes one audit-log entry and leaves
\* the Project table as it was.
C14_DirectCommentAppended ==
    [][\A w \in Workers :
          (Received(w) /\ req'[w].op = "comment" /\ Exists(req'[w].pk))
              => /\ req'[w].code = 201
                 /\ BagCardinality(Added(comments', comments)) = 1
                 /\ \A c \in BagToSet(Added(comments', comments)) :
                       c.project = req'[w].pk /\ c.comment_text = req'[w].text
                 /\ BagCardinality(Added(mails', mails)) = 1
                 /\ \A m \in BagToSet(Added(mails', mails)) :
                       m.to = projects[req'[w].pk].contact_email
                 /\ BagCardinality(Added(logs', logs)) = 1
                 /\ projects' = projects]_vars

\* ------------------------------------------------------------------ C15
\* C15 (as claimed): no step removes or alters a comment: the comments
\* before a step are all among the comments after it.
C15_CommentsOnlyGrow ==
    [][comments \sqsubseteq comments']_vars

\* ------------------------------------------------------------------ C16
\* C16: a step of a request whose caller is not staff (and of a create,
\* which asks for no caller) leaves every existing project row and the
\* comments as they were; such a request is a create, a listing of the
\* categories, or is answered 403 with an empty body, so it never returns
\* projects or audit-log entries.
C16_OutsidersOnlyCreateAndListCategories ==
    [][\A w \in Workers :
          (req'[w] # req[w]
           /\ (req'[w].user \in Outsiders \/ req'[w].op = "create"))
              => /\ \A pk \in DOMAIN projects :
                       pk \in DOMAIN projects' /\ projects'[pk] = projects[pk]
                 /\ comments' = comments
                 /\ \/ req'[w].op = "create" /\ req'[w].body = {}
                    \/ req'[w].op = "categories" /\ req'[w].body = Categories
                    \/ /\ req'[w].pc = "done" /\ req'[w].code = 403
                       /\ req'[w].body = {}
                       /\ UNCHANGED <<db, files>>]_vars

\* carol's accept was answered 403 while a reviewer's accept of the same
\* project has passed the check and saved the row
C16_OutsiderRefusedReviewerServed ==
    \E w, v \in Workers :
        /\ req[w].op = "accept" /\ req[w].user = "carol"
        /\ req[w].pc = "done" /\ req[w].code = 403
        /\ req[v].op = "accept" /\ req[v].user \in Reviewers
        /\ req[v].pc = "comment" /\ req[v].pk = req[w].pk
        /\ Exists(req[v].pk)
        /\ projects[req[v].pk].status = ACCEPTED
        /\ projects[req[v].pk].accepted_by = req[v].user

\* ------------------------------------------------------------------ C18
\* C18 (as claimed): GET /projects/my-projects by a reviewer is answered 200
\* with exactly the projects whose accepted_by, started_by or completed_by
\* is the caller.
C18_MyProjectsListsOwn ==
    [][\A w \in Workers :
          (Received(w) /\ req'[w].op = "my-projects" /\ is_staff(req'[w].user))
              => /\ req'[w].code = 200
                 /\ req'[w].body =
                       {pk \in DOMAIN projects :
                           req'[w].user \in {projects[pk].accepted_by,
                                             projects[pk].started_by,
                                             projects[pk].completed_by}}]_vars

\* ------------------------------------------------------------------ C17
\* C17: the text of a transition is the comment_text of its body when the
\* body carries one, empty or not, and the transition's default message
\* otherwise; the comment the call adds and the mail it sends carry that
\* text, and the 200 response returns it with the status the call set.
C17_ReturnedTextIsStoredAndSent ==
    [][\A w \in Workers :
          InTransition(w)
              => LET used == IF req[w].text = Absent
                             THEN DefaultText(req[w].op) ELSE req[w].text
                 IN /\ \A c \in BagToSet(Added(comments', comments)) :
                          c.comment_text = used /\ c.project = req[w].pk
                    /\ \A m \in BagToSet(Added(mails', mails)) :
                          m.message = used /\ m.project = req[w].pk
                    /\ (req'[w].pc = "done" /\ req'[w].code = 200)
                          => /\ req'[w].text = used
                             /\ req'[w].status = Target(req[w].op)
                             /\ req'[w].made.comments = 1
                             /\ req'[w].made.mails = 1]_vars

\* an accept whose body carried an empty comment_text was answered 200 with
\* the empty text; the comment and the mail carry it
C17_EmptyTextKept ==
    \E w \in Workers :
        /\ req[w].op = "accept" /\ req[w].pc = "done" /\ req[w].code = 200
        /\ req[w].text = "" /\ req[w].status = ACCEPTED
        /\ \E c \in BagToSet(comments) :
              c.project = req[w].pk /\ c.comment_text = ""
        /\ \E m \in BagToSet(mails) :
              m.project = req[w].pk /\ m.subject = "Accepted" /\ m.message = ""

\* ------------------------------------------------------------------ C19
\* C19 (as claimed): in every state, for every project, accepted_by is set
\* exactly when the status is ACCEPTED, IN_PROGRESS or COMPLETED, started_by
\* exactly when it is IN_PROGRESS or COMPLETED, completed_by exactly when it
\* is COMPLETED.
C19_ReviewerFieldsMatchStatus ==
    \A pk \in DOMAIN projects :
        /\ projects[pk].accepted_by # None
              <=> projects[pk].status \in {ACCEPTED, IN_PROGRESS, COMPLETED}
        /\ projects[pk].started_by # None
              <=> projects[pk].status \in {IN_PROGRESS, COMPLETED}
        /\ projects[pk].completed_by # None
              <=> projects[pk].status = COMPLETED

\* ------------------------------------------------------------------ C20
\* C20 (as claimed): a transition request that has saved its status change
\* to a project that is still there has written its audit-log entry by the
\* time it returns, whatever it returns.
C20_SavedTransitionIsLogged ==
    [][\A w \in Workers :
          (/\ Returns(w)
           /\ req[w].op \in Transitions
           /\ req'[w].made.saves = 1
           /\ req[w].pk \in DOMAIN projects')
              => /\ req'[w].made.logs = 1
                 /\ \E l \in BagToSet(logs') :
                       /\ l.logger_name = LoggerName(req[w].op)
                       /\ l.project = req[w].pk]_vars

\* ------------------------------------------------------------------ C21
\* C21 (as claimed): no project is both accepted and rejected: a REJECTED
\* project has no accepted_by, and no project has both an 'Accepted' and a
\* 'Rejected' notification sent for it.
C21_NeverAcceptedAndRejected ==
    /\ \A pk \in DOMAIN projects :
          projects[pk].status = REJECTED => projects[pk].accepted_by = None
    /\ ~\E m, n \in BagToSet(mails) :
          /\ m.project = n.project
          /\ m.subject = Subject("accept")
          /\ n.subject = Subject("reject")
====
